---- MODULE Spec2Model ----
(***************************************************************************)
(* Summer movie pool: title normalization, Top-10 matching, distributor    *)
(* aggregation, entry scoring and leaderboard ordering.                    *)
(*                                                                         *)
(* A Python str is a sequence of one-character strings; the Python value   *)
(* None is the one-element sequence None, which is no str.                 *)
(***************************************************************************)
EXTENDS Integers, Sequences, FiniteSets, TLC

VARIABLES
    pc,               \* position of the run being modelled
    actual_titles,    \* score_entry: titles of the Top 10, in rank order
    MONTHLY_WINNERS,  \* module constant: <<[month, winner]>> in dict order
    dist_rankings,    \* score_entry: <<[dist, rank]>> in dict order
    idx,              \* score_entry: 1-based index of the pick being scored
    pick,             \* score_entry: the pick being scored
    month_i,          \* score_entry: items of MONTHLY_WINNERS consumed
    wanted_rank,      \* score_entry: 1-based index of the distributor guess
    guess,            \* score_entry: the guess being scored (monthly or distributor)
    total,            \* score_entry: running total
    raw_titles,       \* get_top_10_summer_movies: the reference list, as loaded
    norm_map,         \* get_top_10_summer_movies: dict key -> reference title
    data,             \* get_top_10_summer_movies: source rows read so far
    matched,          \* get_top_10_summer_movies: records of the matched rows
    top10,            \* get_top_10_summer_movies: the list returned
    ALL,              \* get_top_distributors_for_summer: rows aggregated so far
    totals,           \* get_top_distributors_for_summer: dict distributor -> sum
    limit,            \* get_top_distributors_for_summer: the parameter
    ranked,           \* get_top_distributors_for_summer: the list returned
    entries,          \* main: the entries scored so far
    scored,           \* main: the leaderboard
    arg,              \* a text function called on its own: its argument
    out               \* a text function called on its own: what it returned, call by call

scoreVars == <<actual_titles, MONTHLY_WINNERS, dist_rankings, idx, pick,
               month_i, wanted_rank, guess, total>>

topVars == <<raw_titles, norm_map, data, matched, top10>>

distVars == <<ALL, totals, limit, ranked>>

boardVars == <<entries, scored>>

textVars == <<arg, out>>

vars == <<pc, scoreVars, topVars, distVars, boardVars, textVars>>

\* the variables of a function that is not running
ScoreIdle ==
    /\ actual_titles = <<>>
    /\ MONTHLY_WINNERS = <<>>
    /\ dist_rankings = <<>>
    /\ idx = 0
    /\ pick = <<>>
    /\ month_i = 0
    /\ wanted_rank = 0
    /\ guess = <<>>
    /\ total = 0

TopIdle ==
    /\ raw_titles = <<>>
    /\ norm_map = <<>>
    /\ data = <<>>
    /\ matched = <<>>
    /\ top10 = <<>>

DistIdle ==
    /\ ALL = <<>>
    /\ totals = <<>>
    /\ limit = 0
    /\ ranked = <<>>

BoardIdle ==
    /\ entries = <<>>
    /\ scored = <<>>

TextIdle ==
    /\ arg = <<>>
    /\ out = <<>>

-----------------------------------------------------------------------------
(* Bounds of the model *)

MaxPicks == 3      \* picks scored per entry (the pool's entries carry 10)
MaxGuesses == 4    \* distributor guesses scored per entry
MaxInput == 3      \* ranked titles + configured months + ranked distributors
MaxRef == 2        \* titles of the reference list
MaxRows == 3       \* source rows drawn freely from the row pool
MaxDistRows == 3   \* rows of the yearly list
MaxLimit == 3      \* the limit asked of get_top_distributors_for_summer
MaxEntries == 3    \* entries of the pool
MaxStr == 3        \* characters of a title drawn freely from the alphabet
MaxTokens == 5     \* names, separators and blanks of a distributor field
MaxPad == 1        \* whitespace characters on each side of a distributor name
MaxFileRows == 3   \* rows of the reference CSV

-----------------------------------------------------------------------------
(* Strings *)

None == <<"None">>

Truthy(x) == x # None /\ x # <<>>

OrEmpty(x) == IF Truthy(x) THEN x ELSE <<>>

UPPER == <<"A","B","C","D","E","F","G","H","I","J","K","L","M",
           "N","O","P","Q","R","S","T","U","V","W","X","Y","Z">>

LOWER == <<"a","b","c","d","e","f","g","h","i","j","k","l","m",
           "n","o","p","q","r","s","t","u","v","w","x","y","z">>

DIGITS == <<"0","1","2","3","4","5","6","7","8","9">>

Range(f) == {f[i] : i \in DOMAIN f}

SeqsUpTo(S, n) == UNION {[1..k -> S] : k \in 0..n}

UpperSet == Range(UPPER)

AZ09 == Range(LOWER) \cup Range(DIGITS)

ToLower == [c \in UpperSet |-> LOWER[CHOOSE i \in DOMAIN UPPER : UPPER[i] = c]]

\* str.lower(), one ASCII character
lower_char(c) == IF c \in UpperSet THEN ToLower[c] ELSE c

\* characters beyond ASCII: each is one element of a str, named by its code point
cEAcute == "U+00E9"
cIDotted == "U+0130"
cCombiningDot == "U+0307"
cKelvin == "U+212A"

\* str.lower() of a one-character str: a str of one or two characters
LowerOf(c) ==
    IF c = cIDotted THEN <<"i", cCombiningDot>>
    ELSE IF c = cKelvin THEN <<"k">>
    ELSE <<lower_char(c)>>

\* str.lower()
RECURSIVE str_lower(_)
str_lower(s) == IF s = <<>> THEN <<>> ELSE LowerOf(Head(s)) \o str_lower(Tail(s))

IsAZ09(c) == c \in AZ09

\* a mutant of normalize_title: the case is kept
normalize_title_KeepCase(title) ==
    SelectSeq(title, LAMBDA c : c \in AZ09 \cup UpperSet)

\* re.sub(r'[^a-z0-9]', '', str(title).lower())
normalize_title(title) == SelectSeq(str_lower(title), IsAZ09)

sEmpty == <<>>
sSuperman == <<"S","u","p","e","r","m","a","n">>
sSupermanUc == <<"S","U","P","E","R","M","A","N">>
sSupermanLc == <<"s","u","p","e","r","m","a","n">>
sWeapons == <<"W","e","a","p","o","n","s">>
sElio == <<"E","l","i","o">>
sBangs == <<"!","!","!">>
sWarnerBros == <<"W","a","r","n","e","r"," ","B","r","o","s",".">>
sUniversal == <<"U","n","i","v","e","r","s","a","l">>
sUniversalLc == <<"u","n","i","v","e","r","s","a","l">>
sLegendary == <<"L","e","g","e","n","d","a","r","y">>
sQuestion == <<"?">>

-----------------------------------------------------------------------------
(* score_entry *)

\* DIST_RANK_POINTS.get(wanted_rank, 0)
DIST_RANK_POINTS(k) == IF k = 1 THEN 5 ELSE IF k = 2 THEN 3 ELSE IF k = 3 THEN 1 ELSE 0

\* a mutant of ScanTitles: the bonus is paid at whatever rank the pick is found
RECURSIVE ScanTitles_BonusAnywhere(_, _, _, _)
ScanTitles_BonusAnywhere(npick, titles, pos, i) ==
    IF pos > Len(titles) THEN 0
    ELSE IF npick = normalize_title(titles[pos]) THEN 1 + pos
    ELSE ScanTitles_BonusAnywhere(npick, titles, pos + 1, i)

\* the inner loop over actual_titles, from position pos on: what it adds to total
RECURSIVE ScanTitles(_, _, _, _)
ScanTitles(npick, titles, pos, i) ==
    IF pos > Len(titles) THEN 0
    ELSE IF npick = normalize_title(titles[pos])
         THEN 1 + (IF pos = i THEN pos ELSE 0)
         ELSE ScanTitles(npick, titles, pos + 1, i)

\* one iteration of the loop over picks
PickPoints(i, p, titles) == ScanTitles(normalize_title(p), titles, 1, i)

\* a mutant of MonthPoints: the guess is compared verbatim
MonthPoints_Verbatim(winner, g) ==
    IF Truthy(winner) /\ OrEmpty(g) = winner THEN 3 ELSE 0

\* one iteration of the loop over MONTHLY_WINNERS; g is monthly_guess.get(month)
MonthPoints(winner, g) ==
    IF Truthy(winner) /\ normalize_title(OrEmpty(g)) = normalize_title(winner)
    THEN 3 ELSE 0

\* a mutant of ScanRankings: the rank of the matching distributor is not compared
RECURSIVE ScanRankings_AnyRank(_, _, _, _)
ScanRankings_AnyRank(gnorm, rankings, j, k) ==
    IF j > Len(rankings) THEN 0
    ELSE IF normalize_title(rankings[j].dist) = gnorm
         THEN DIST_RANK_POINTS(k)
         ELSE ScanRankings_AnyRank(gnorm, rankings, j + 1, k)

\* the inner loop over dist_rankings.items(), from item j on
RECURSIVE ScanRankings(_, _, _, _)
ScanRankings(gnorm, rankings, j, k) ==
    IF j > Len(rankings) THEN 0
    ELSE IF normalize_title(rankings[j].dist) = gnorm /\ rankings[j].rank = k
         THEN DIST_RANK_POINTS(k)
         ELSE ScanRankings(gnorm, rankings, j + 1, k)

\* one iteration of the loop over dist_guesses
DistPoints(k, g, rankings) ==
    IF ~Truthy(g) THEN 0 ELSE ScanRankings(normalize_title(g), rankings, 1, k)

\* dist_rankings = {dist: i for i, (dist, _sum) in enumerate(top_dists, start=1)}
RankingsOf(names) == [i \in DOMAIN names |-> [dist |-> names[i], rank |-> i]]

-----------------------------------------------------------------------------
(* dict and sort *)

\* a dict is the sequence of its items [key, value] in insertion order
DictHas(d, k) == \E i \in DOMAIN d : d[i].key = k

DictGet(d, k) == d[CHOOSE i \in DOMAIN d : d[i].key = k].value

\* a mutant of DictSet: an old key moves behind the others
DictSet_MoveToEnd(d, k, v) ==
    Append(SelectSeq(d, LAMBDA it : it.key # k), [key |-> k, value |-> v])

\* d[k] = v: a new key is appended, an old key keeps its place
DictSet(d, k, v) ==
    IF DictHas(d, k)
    THEN [i \in DOMAIN d |-> IF d[i].key = k THEN [key |-> k, value |-> v] ELSE d[i]]
    ELSE Append(d, [key |-> k, value |-> v])

\* a mutant of SortInsert: x goes before the items with an equal key
SortInsert_BeforeEqual(sorted, x) ==
    LET n == Cardinality({i \in DOMAIN sorted : sorted[i].k > x.k})
    IN  SubSeq(sorted, 1, n) \o <<x>> \o SubSeq(sorted, n + 1, Len(sorted))

\* stable descending sort, one item [k, x]: it goes behind the items whose key
\* k is greater than or equal to its own
SortInsert(sorted, x) ==
    LET n == Cardinality({i \in DOMAIN sorted : sorted[i].k >= x.k})
    IN  SubSeq(sorted, 1, n) \o <<x>> \o SubSeq(sorted, n + 1, Len(sorted))

RECURSIVE SortItems(_)
SortItems(s) ==
    IF s = <<>> THEN <<>>
    ELSE SortInsert(SortItems(SubSeq(s, 1, Len(s) - 1)), s[Len(s)])

\* list.sort(key=..., reverse=True) and sorted(s, key=..., reverse=True);
\* keys[i] is the key of s[i]
SortReverse(s, keys) ==
    LET sorted == SortItems([i \in DOMAIN s |-> [k |-> keys[i], x |-> s[i]]])
    IN  [i \in DOMAIN s |-> sorted[i].x]

\* a mutant of Slice: one item more
Slice_OneMore(s, n) == SubSeq(s, 1, IF Len(s) < n + 1 THEN Len(s) ELSE n + 1)

\* s[:n], n >= 0
Slice(s, n) == SubSeq(s, 1, IF Len(s) < n THEN Len(s) ELSE n)

-----------------------------------------------------------------------------
(* get_top_10_summer_movies *)

TopN == 10

\* a mutant of BuildNormMap: the first of two titles with one key is kept
RECURSIVE BuildNormMap_KeepFirst(_)
BuildNormMap_KeepFirst(titles) ==
    IF titles = <<>> THEN <<>>
    ELSE LET m == BuildNormMap_KeepFirst(SubSeq(titles, 1, Len(titles) - 1))
             t == titles[Len(titles)]
         IN  IF DictHas(m, normalize_title(t)) THEN m ELSE DictSet(m, normalize_title(t), t)

\* norm_map = { normalize_title(t): t for t in raw_titles }
RECURSIVE BuildNormMap(_)
BuildNormMap(titles) ==
    IF titles = <<>> THEN <<>>
    ELSE DictSet(BuildNormMap(SubSeq(titles, 1, Len(titles) - 1)),
                 normalize_title(titles[Len(titles)]), titles[Len(titles)])

RefPool == {sSuperman, sSupermanUc, sWeapons}

RowPool == {[title |-> sSupermanLc, gross |-> 1], [title |-> sSupermanLc, gross |-> 2],
            [title |-> sWeapons, gross |-> 1], [title |-> sWeapons, gross |-> 2],
            [title |-> sElio, gross |-> 2]}

\* the rows a long chart goes on with
TailPool == {[title |-> sWeapons, gross |-> 2]}

\* the reference list as load_summer_list returns it
TopInit ==
    /\ pc = "load"
    /\ ScoreIdle
    /\ DistIdle
    /\ BoardIdle
    /\ TextIdle
    /\ raw_titles \in SeqsUpTo(RefPool, MaxRef)
    /\ norm_map = <<>>
    /\ data = <<>>
    /\ matched = <<>>
    /\ top10 = <<>>

\* 1) load & normalize the CSV list
BuildMap ==
    /\ pc = "load"
    /\ pc' = "match"
    /\ norm_map' = BuildNormMap(raw_titles)
    /\ UNCHANGED <<scoreVars, distVars, boardVars, textVars, raw_titles, data, matched, top10>>

\* 3) for title, gross in data: one iteration
MatchRow ==
    /\ pc = "match"
    /\ Len(data) < MaxRows + TopN
    /\ \E row \in (IF Len(data) < MaxRows THEN RowPool ELSE TailPool) :
          LET key == normalize_title(row.title)
          IN  /\ data' = Append(data, row)
              /\ matched' = IF DictHas(norm_map, key)
                            THEN Append(matched, [title |-> DictGet(norm_map, key),
                                                  gross |-> row.gross])
                            ELSE matched
    /\ UNCHANGED <<pc, scoreVars, distVars, boardVars, textVars, raw_titles, norm_map, top10>>

\* matched.sort(key=lambda x: x["gross"], reverse=True); top10 = matched[:10]
SortAndSlice ==
    /\ pc = "match"
    /\ pc' = "top_returned"
    /\ matched' = SortReverse(matched, [i \in DOMAIN matched |-> matched[i].gross])
    /\ top10' = Slice(matched', TopN)
    /\ UNCHANGED <<scoreVars, distVars, boardVars, textVars, raw_titles, norm_map, data>>

TopNext == BuildMap \/ MatchRow \/ SortAndSlice

SpecTop == TopInit /\ [][TopNext]_vars

-----------------------------------------------------------------------------
(* get_top_distributors_for_summer *)

sWaltDisney == <<"W","a","l","t"," ","D","i","s","n","e","y">>
sSonyPictures == <<"S","o","n","y"," ","P","i","c","t","u","r","e","s">>
sParamountPictures == <<"P","a","r","a","m","o","u","n","t"," ","P","i","c","t","u","r","e","s">>
sLionsgate == <<"L","i","o","n","s","g","a","t","e">>
sA24 == <<"A","2","4">>
sUnknown == <<"U","n","k","n","o","w","n">>
sFocusFeatures == <<"F","o","c","u","s"," ","F","e","a","t","u","r","e","s">>
sWarnerLegendary == <<"W","a","r","n","e","r"," ","B","r","o","s","."," ","/"," ","L","e","g","e","n","d","a","r","y">>
sUniversalFocus == <<"U","n","i","v","e","r","s","a","l"," ","/"," ","F","o","c","u","s"," ","F","e","a","t","u","r","e","s">>

\* the dict `mapping` of normalize_distributor, in source order
mapping == <<
    \* "Walt Disney Studios Motion Pictures"
    [key |-> <<"W","a","l","t"," ","D","i","s","n","e","y"," ","S","t","u","d","i","o","s"," ","M","o","t","i","o","n"," ","P","i","c","t","u","r","e","s">>,
     value |-> sWaltDisney],
    \* "Walt Disney Pictures"
    [key |-> <<"W","a","l","t"," ","D","i","s","n","e","y"," ","P","i","c","t","u","r","e","s">>,
     value |-> sWaltDisney],
    \* "Disney"
    [key |-> <<"D","i","s","n","e","y">>,
     value |-> sWaltDisney],
    \* "Buena Vista"
    [key |-> <<"B","u","e","n","a"," ","V","i","s","t","a">>,
     value |-> sWaltDisney],
    \* "Warner Bros. Pictures"
    [key |-> <<"W","a","r","n","e","r"," ","B","r","o","s","."," ","P","i","c","t","u","r","e","s">>,
     value |-> sWarnerBros],
    \* "Warner Bros"
    [key |-> <<"W","a","r","n","e","r"," ","B","r","o","s">>,
     value |-> sWarnerBros],
    \* "Warner Brothers"
    [key |-> <<"W","a","r","n","e","r"," ","B","r","o","t","h","e","r","s">>,
     value |-> sWarnerBros],
    \* "Universal Pictures"
    [key |-> <<"U","n","i","v","e","r","s","a","l"," ","P","i","c","t","u","r","e","s">>,
     value |-> sUniversal],
    \* "Universal Pictures Distribution"
    [key |-> <<"U","n","i","v","e","r","s","a","l"," ","P","i","c","t","u","r","e","s"," ","D","i","s","t","r","i","b","u","t","i","o","n">>,
     value |-> sUniversal],
    \* "Focus Features"
    [key |-> <<"F","o","c","u","s"," ","F","e","a","t","u","r","e","s">>,
     value |-> sUniversal],
    \* "Sony Pictures Releasing"
    [key |-> <<"S","o","n","y"," ","P","i","c","t","u","r","e","s"," ","R","e","l","e","a","s","i","n","g">>,
     value |-> sSonyPictures],
    \* "Sony Pictures Entertainment (SPE)"
    [key |-> <<"S","o","n","y"," ","P","i","c","t","u","r","e","s"," ","E","n","t","e","r","t","a","i","n","m","e","n","t"," ","(","S","P","E",")">>,
     value |-> sSonyPictures],
    \* "Sony"
    [key |-> <<"S","o","n","y">>,
     value |-> sSonyPictures],
    \* "TriStar Pictures"
    [key |-> <<"T","r","i","S","t","a","r"," ","P","i","c","t","u","r","e","s">>,
     value |-> sSonyPictures],
    \* "Columbia Pictures"
    [key |-> <<"C","o","l","u","m","b","i","a"," ","P","i","c","t","u","r","e","s">>,
     value |-> sSonyPictures],
    \* "Paramount Pictures"
    [key |-> <<"P","a","r","a","m","o","u","n","t"," ","P","i","c","t","u","r","e","s">>,
     value |-> sParamountPictures],
    \* "Paramount"
    [key |-> <<"P","a","r","a","m","o","u","n","t">>,
     value |-> sParamountPictures],
    \* "Lionsgate"
    [key |-> <<"L","i","o","n","s","g","a","t","e">>,
     value |-> sLionsgate],
    \* "Lions Gate Films"
    [key |-> <<"L","i","o","n","s"," ","G","a","t","e"," ","F","i","l","m","s">>,
     value |-> sLionsgate],
    \* "A24 Films"
    [key |-> <<"A","2","4"," ","F","i","l","m","s">>,
     value |-> sA24],
    \* "A24 Distribution"
    [key |-> <<"A","2","4"," ","D","i","s","t","r","i","b","u","t","i","o","n">>,
     value |-> sA24],
    \* "20th Century Studios"
    [key |-> <<"2","0","t","h"," ","C","e","n","t","u","r","y"," ","S","t","u","d","i","o","s">>,
     value |-> sWaltDisney],
    \* "Searchlight Pictures"
    [key |-> <<"S","e","a","r","c","h","l","i","g","h","t"," ","P","i","c","t","u","r","e","s">>,
     value |-> sWaltDisney] >>

\* characters that \s and str.strip() take for whitespace
Whitespace == {" ", "\t"}

\* the dates of the model are the integers yyyymmdd; release is <<>> for None
NoDate == <<>>

\* start = datetime(2025, 5, 1)
start == 20250501

\* end = datetime(2025, 9, 1)
end == 20250901

\* a mutant of in_summer: the end of the window is included
in_summer_EndIncluded(dt) ==
    IF dt = NoDate THEN FALSE ELSE (dt[1] >= start) /\ (dt[1] <= end)

\* def in_summer(dt)
in_summer(dt) ==
    IF dt = NoDate THEN FALSE ELSE (dt[1] >= start) /\ (dt[1] < end)

\* the number of whitespace characters of s from position p on
RECURSIVE WsRun(_, _)
WsRun(s, p) ==
    IF p <= Len(s) /\ s[p] \in Whitespace THEN 1 + WsRun(s, p + 1) ELSE 0

\* (?:/|&|,| and ) under re.IGNORECASE at position q: the length matched, 0 if none
SepLenAt(s, q) ==
    IF q <= Len(s) /\ s[q] \in {"/", "&", ","} THEN 1
    ELSE IF /\ q + 4 <= Len(s)
            /\ s[q] = " "
            /\ lower_char(s[q + 1]) = "a"
            /\ lower_char(s[q + 2]) = "n"
            /\ lower_char(s[q + 3]) = "d"
            /\ s[q + 4] = " "
         THEN 5
    ELSE 0

\* \s*(?:/|&|,| and )\s* at position p with the leading \s* taking k characters,
\* then k - 1, ... (greedy, backtracking): the position behind the match, 0 if none
RECURSIVE MatchEnd(_, _, _)
MatchEnd(s, p, k) ==
    IF k < 0 THEN 0
    ELSE IF SepLenAt(s, p + k) > 0
         THEN LET e == p + k + SepLenAt(s, p + k) IN e + WsRun(s, e)
         ELSE MatchEnd(s, p, k - 1)

\* splitter.split(s): the piece begun at from, the scan being at p
RECURSIVE RegexSplit(_, _, _)
RegexSplit(s, from, p) ==
    IF p > Len(s) THEN <<SubSeq(s, from, Len(s))>>
    ELSE LET e == MatchEnd(s, p, WsRun(s, p))
         IN  IF e > 0 THEN <<SubSeq(s, from, p - 1)>> \o RegexSplit(s, e, e)
             ELSE RegexSplit(s, from, p + 1)

splitter_split(s) == RegexSplit(s, 1, 1)

\* str.strip()
RECURSIVE strip(_)
strip(s) ==
    IF s = <<>> THEN s
    ELSE IF s[1] \in Whitespace THEN strip(Tail(s))
    ELSE IF s[Len(s)] \in Whitespace THEN strip(SubSeq(s, 1, Len(s) - 1))
    ELSE s

\* a mutant of normalize_distributor: the name is looked up as it came
normalize_distributor_NoStrip(name) ==
    IF ~Truthy(name) THEN sUnknown
    ELSE IF DictHas(mapping, name) THEN DictGet(mapping, name) ELSE name

\* def normalize_distributor(name)
normalize_distributor(name) ==
    IF ~Truthy(name) THEN sUnknown
    ELSE LET n == strip(name)
         IN  IF DictHas(mapping, n) THEN DictGet(mapping, n) ELSE n

\* a mutant of AddParts: the gross is shared out among the parts
AddParts_Shared(tot, parts, gross) ==
    LET share == gross \div Cardinality({i \in DOMAIN parts : strip(parts[i]) # <<>>})
        RECURSIVE Add(_, _)
        Add(t, ps) ==
            IF ps = <<>> THEN t
            ELSE IF strip(Head(ps)) = <<>> THEN Add(t, Tail(ps))
            ELSE LET dist == normalize_distributor(Head(ps))
                 IN  Add(DictSet(t, dist, (IF DictHas(t, dist) THEN DictGet(t, dist) ELSE 0) + share),
                         Tail(ps))
    IN  Add(tot, parts)

\* for part in splitter.split(...): the loop, totals being tot at its start
RECURSIVE AddParts(_, _, _)
AddParts(tot, parts, gross) ==
    IF parts = <<>> THEN tot
    ELSE IF strip(Head(parts)) = <<>> THEN AddParts(tot, Tail(parts), gross)
    ELSE LET dist == normalize_distributor(Head(parts))
         IN  AddParts(DictSet(tot, dist,
                              (IF DictHas(tot, dist) THEN DictGet(tot, dist) ELSE 0) + gross),
                      Tail(parts), gross)

\* the canonical names the split loop adds to, in the order it meets them
DistributorsOf(dist_raw) ==
    LET parts == SelectSeq(splitter_split(OrEmpty(dist_raw)), LAMBDA q : strip(q) # <<>>)
    IN  [i \in DOMAIN parts |-> normalize_distributor(parts[i])]

\* the body of `for row in ALL`
AggregateRow(tot, row) ==
    IF ~in_summer(row.release) THEN tot
    ELSE IF row.gross <= 0 THEN tot
    ELSE AddParts(tot, splitter_split(row.dist), row.gross)

SummerDay == <<20250515>>

DistRowPool ==
    {[release |-> SummerDay, dist |-> d, gross |-> g] :
        d \in {sWarnerLegendary, sUniversalFocus, sUniversal, sLegendary}, g \in {5, 10}}
    \cup {[release |-> r, dist |-> sUniversal, gross |-> 5] :
             r \in {NoDate, <<20250430>>, <<20250501>>, <<20250831>>, <<20250901>>}}
    \cup {[release |-> SummerDay, dist |-> sUniversal, gross |-> 0]}

DistInit ==
    /\ pc = "aggregate"
    /\ ScoreIdle
    /\ TopIdle
    /\ DistIdle
    /\ BoardIdle
    /\ TextIdle

\* for row in ALL: one iteration, the row being the next of the rows fetched
AggregateStep ==
    /\ pc = "aggregate"
    /\ Len(ALL) < MaxDistRows
    /\ \E row \in DistRowPool :
          /\ ALL' = Append(ALL, row)
          /\ totals' = AggregateRow(totals, row)
    /\ UNCHANGED <<pc, scoreVars, topVars, boardVars, textVars, limit, ranked>>

\* ranked = sorted(totals.items(), key=lambda kv: kv[1], reverse=True)[:limit]
SortAndLimit ==
    /\ pc = "aggregate"
    /\ pc' = "dist_returned"
    /\ \E n \in 0..MaxLimit :
          /\ limit' = n
          /\ ranked' = Slice(SortReverse(totals, [i \in DOMAIN totals |-> totals[i].value]), n)
    /\ UNCHANGED <<scoreVars, topVars, boardVars, textVars, ALL, totals>>

DistNext == AggregateStep \/ SortAndLimit

SpecDist == DistInit /\ [][DistNext]_vars

-----------------------------------------------------------------------------
(* Inputs of score_entry *)

TitlePool == {sSuperman, sWeapons, sBangs}
PickPool == {sEmpty, sSupermanLc, sWeapons, sElio}
WinnerPool == {None, sEmpty, sSuperman, sBangs}
MonthlyGuessPool == {None, sEmpty, sSupermanLc, sWeapons}
DistPool == {sWarnerBros, sUniversal, sQuestion}
DistGuessPool == {sEmpty, sWarnerBros, sUniversalLc, sBangs}
MonthNames == <<"May", "June", "July", "August">>

Distinct(s) == \A i, j \in DOMAIN s : i # j => s[i] # s[j]

ScoreInputs ==
    {in \in [titles : SeqsUpTo(TitlePool, MaxInput),
             winners : SeqsUpTo(WinnerPool, MaxInput),
             dists : {d \in SeqsUpTo(DistPool, Cardinality(DistPool)) : Distinct(d)}] :
        /\ Len(in.titles) + Len(in.winners) + Len(in.dists) <= MaxInput
        /\ Len(in.winners) <= Len(MonthNames)}

ScoreInit ==
    /\ pc = "picks"
    /\ TopIdle
    /\ DistIdle
    /\ BoardIdle
    /\ TextIdle
    /\ \E in \in ScoreInputs :
          /\ actual_titles = in.titles
          /\ MONTHLY_WINNERS =
                [i \in DOMAIN in.winners |-> [month |-> MonthNames[i], winner |-> in.winners[i]]]
          /\ dist_rankings = RankingsOf(in.dists)
    /\ idx = 0
    /\ pick = sEmpty
    /\ month_i = 0
    /\ wanted_rank = 0
    /\ guess = sEmpty
    /\ total = 0

\* for idx, pick in enumerate(picks, start=1): one iteration
PickStep ==
    /\ pc = "picks"
    /\ idx < MaxPicks
    /\ \E p \in PickPool :
          /\ pick' = p
          /\ total' = total + PickPoints(idx + 1, p, actual_titles)
    /\ idx' = idx + 1
    /\ UNCHANGED <<pc, actual_titles, MONTHLY_WINNERS, dist_rankings, month_i, wanted_rank, guess, topVars, distVars, boardVars, textVars>>

\* picks is exhausted; idx and pick are not read again
PicksDone ==
    /\ pc = "picks"
    /\ pc' = "monthly"
    /\ idx' = 0
    /\ pick' = sEmpty
    /\ UNCHANGED <<actual_titles, MONTHLY_WINNERS, dist_rankings, month_i, wanted_rank, guess, total, topVars, distVars, boardVars, textVars>>

\* for month, winner in MONTHLY_WINNERS.items(): one iteration
MonthStep ==
    /\ pc = "monthly"
    /\ month_i < Len(MONTHLY_WINNERS)
    /\ \E g \in MonthlyGuessPool :
          /\ guess' = OrEmpty(g)
          /\ total' = total + MonthPoints(MONTHLY_WINNERS[month_i + 1].winner, g)
    /\ month_i' = month_i + 1
    /\ UNCHANGED <<pc, actual_titles, MONTHLY_WINNERS, dist_rankings, idx, pick, wanted_rank, topVars, distVars, boardVars, textVars>>

\* MONTHLY_WINNERS is exhausted
MonthsDone ==
    /\ pc = "monthly"
    /\ month_i = Len(MONTHLY_WINNERS)
    /\ pc' = "dists"
    /\ guess' = sEmpty
    /\ UNCHANGED <<actual_titles, MONTHLY_WINNERS, dist_rankings, idx, pick, month_i, wanted_rank, total, topVars, distVars, boardVars, textVars>>

\* for wanted_rank, guess in enumerate(dist_guesses, start=1): one iteration
DistStep ==
    /\ pc = "dists"
    /\ wanted_rank < MaxGuesses
    /\ \E g \in DistGuessPool :
          /\ guess' = g
          /\ total' = total + DistPoints(wanted_rank + 1, g, dist_rankings)
    /\ wanted_rank' = wanted_rank + 1
    /\ UNCHANGED <<pc, actual_titles, MONTHLY_WINNERS, dist_rankings, idx, pick, month_i, topVars, distVars, boardVars, textVars>>

\* return total
ScoreReturn ==
    /\ pc = "dists"
    /\ pc' = "returned"
    /\ UNCHANGED <<scoreVars, topVars, distVars, boardVars, textVars>>

ScoreNext == PickStep \/ PicksDone \/ MonthStep \/ MonthsDone \/ DistStep \/ ScoreReturn

SpecScore == ScoreInit /\ [][ScoreNext]_vars

-----------------------------------------------------------------------------
(* main: scoring the entries and ordering the leaderboard *)

sAl == <<"A","l">>
sAlan == <<"A","l","a","n">>
sBo == <<"B","o">>
sAlLc == <<"a","l">>

\* ord(c), the code point of a character
Ord(c) ==
    IF c \in UpperSet THEN 64 + (CHOOSE i \in DOMAIN UPPER : UPPER[i] = c)
    ELSE IF c \in Range(LOWER) THEN 96 + (CHOOSE i \in DOMAIN LOWER : LOWER[i] = c)
    ELSE IF c \in Range(DIGITS) THEN 47 + (CHOOSE i \in DOMAIN DIGITS : DIGITS[i] = c)
    ELSE IF c = "\t" THEN 9
    ELSE IF c = " " THEN 32
    ELSE IF c = "!" THEN 33
    ELSE IF c = "&" THEN 38
    ELSE IF c = "(" THEN 40
    ELSE IF c = ")" THEN 41
    ELSE IF c = "," THEN 44
    ELSE IF c = "." THEN 46
    ELSE IF c = "/" THEN 47
    ELSE 63

\* a < b for two str
RECURSIVE StrLess(_, _)
StrLess(a, b) ==
    IF b = <<>> THEN FALSE
    ELSE IF a = <<>> THEN TRUE
    ELSE IF Head(a) = Head(b) THEN StrLess(Tail(a), Tail(b))
    ELSE Ord(Head(a)) < Ord(Head(b))

\* a mutant of KeyLess: the name does not count
KeyLess_ScoreOnly(x, y) == -x.score < -y.score

\* (-x["score"], x["name"]) < (-y["score"], y["name"])
KeyLess(x, y) ==
    \/ -x.score < -y.score
    \/ -x.score = -y.score /\ StrLess(x.name, y.name)

\* stable ascending sort by the key of KeyLess, one item: x goes in front of
\* the first item whose key is greater than its own
RECURSIVE InsertByKey(_, _)
InsertByKey(sorted, x) ==
    IF sorted = <<>> THEN <<x>>
    ELSE IF KeyLess(x, Head(sorted)) THEN <<x>> \o sorted
    ELSE <<Head(sorted)>> \o InsertByKey(Tail(sorted), x)

\* scored.sort(key=lambda x: (-x["score"], x["name"]))
RECURSIVE SortByKey(_)
SortByKey(s) ==
    IF s = <<>> THEN <<>>
    ELSE InsertByKey(SortByKey(SubSeq(s, 1, Len(s) - 1)), s[Len(s)])

RECURSIVE SumTo(_, _)
SumTo(f, n) == IF n = 0 THEN 0 ELSE f[n] + SumTo(f, n - 1)

\* def score_entry(picks, actual_titles, monthly_guess, dist_guesses, dist_rankings);
\* monthly_guess[i] is the guess for the i-th month of winners
score_entry(picks, titles, monthly_guess, dist_guesses, rankings, winners) ==
    SumTo([i \in DOMAIN picks |-> PickPoints(i, picks[i], titles)], Len(picks))
    + SumTo([i \in DOMAIN winners |-> MonthPoints(winners[i].winner, monthly_guess[i])],
            Len(winners))
    + SumTo([k \in DOMAIN dist_guesses |-> DistPoints(k, dist_guesses[k], rankings)],
            Len(dist_guesses))

\* what main scores the entries against
BoardTitles == <<sSuperman, sWeapons>>
BoardWinners == <<[month |-> "May", winner |-> sSuperman]>>
BoardRankings == RankingsOf(<<sWarnerBros, sUniversal>>)

BallotPool ==
    {[picks |-> <<sEmpty, sEmpty>>, monthly |-> <<sEmpty>>, dists |-> <<sEmpty, sEmpty, sEmpty>>],
     [picks |-> <<sSupermanLc, sElio>>, monthly |-> <<sEmpty>>, dists |-> <<sEmpty, sEmpty, sEmpty>>],
     [picks |-> <<sElio, sEmpty>>, monthly |-> <<sWeapons>>, dists |-> <<sEmpty, sUniversalLc, sEmpty>>],
     [picks |-> <<sWeapons, sSupermanLc>>, monthly |-> <<sSupermanLc>>, dists |-> <<sWarnerBros, sEmpty, sEmpty>>]}

EntryPool ==
    {[name |-> n, picks |-> b.picks, monthly |-> b.monthly, dists |-> b.dists] :
        n \in {sAl, sAlan, sBo, sAlLc}, b \in BallotPool}

BoardInit ==
    /\ pc = "score"
    /\ actual_titles = BoardTitles
    /\ MONTHLY_WINNERS = BoardWinners
    /\ dist_rankings = BoardRankings
    /\ idx = 0
    /\ pick = <<>>
    /\ month_i = 0
    /\ wanted_rank = 0
    /\ guess = <<>>
    /\ total = 0
    /\ TopIdle
    /\ DistIdle
    /\ BoardIdle
    /\ TextIdle

\* for e in entries: one iteration, the entry being the next one loaded
ScoreOne ==
    /\ pc = "score"
    /\ Len(entries) < MaxEntries
    /\ \E e \in EntryPool :
          /\ entries' = Append(entries, e)
          /\ scored' = Append(scored,
                [name |-> e.name,
                 score |-> score_entry(e.picks, actual_titles, e.monthly, e.dists,
                                       dist_rankings, MONTHLY_WINNERS)])
    /\ UNCHANGED <<pc, scoreVars, topVars, distVars, textVars>>

\* scored.sort(key=lambda x: (-x["score"], x["name"]))
SortScored ==
    /\ pc = "score"
    /\ pc' = "board_sorted"
    /\ scored' = SortByKey(scored)
    /\ UNCHANGED <<scoreVars, topVars, distVars, textVars, entries>>

BoardNext == ScoreOne \/ SortScored

SpecBoard == BoardInit /\ [][BoardNext]_vars

-----------------------------------------------------------------------------
(* load_summer_list *)

\* the byte-order mark, one character of a str
cBOM == "U+FEFF"

sMovie == <<"m","o","v","i","e">>
sTitle == <<"t","i","t","l","e">>

\* str.lstrip('\ufeff')
RECURSIVE lstrip_bom(_)
lstrip_bom(s) == IF s # <<>> /\ Head(s) = cBOM THEN lstrip_bom(Tail(s)) ELSE s

\* the position where the whitespace run that ends just before position k starts
RECURSIVE WsStart(_, _)
WsStart(s, k) == IF k > 1 /\ s[k - 1] \in Whitespace THEN WsStart(s, k - 1) ELSE k

\* re.sub(r"\s*\(.*\)$", "", raw) on a one-line str: the leftmost match starts
\* at the whitespace before the first "(" and needs a ")" at the very end
sub_annotation(raw) ==
    LET opens == {k \in DOMAIN raw : raw[k] = "(" /\ k < Len(raw)}
    IN  IF raw # <<>> /\ raw[Len(raw)] = ")" /\ opens # {}
        THEN LET k == CHOOSE i \in opens : \A j \in opens : i <= j
             IN  SubSeq(raw, 1, WsStart(raw, k) - 1)
        ELSE raw

\* clean = re.sub(r"\s*\(.*\)$", "", raw).strip()
clean_title(raw) == strip(sub_annotation(raw))

\* for row in rdr: the titles of the rows after the first
RECURSIVE LaterRows(_)
LaterRows(rows) ==
    IF rows = <<>> THEN <<>>
    ELSE LET row == Head(rows)
         IN  IF row = <<>> \/ strip(row[1]) = <<>> THEN LaterRows(Tail(rows))
             ELSE <<clean_title(strip(row[1]))>> \o LaterRows(Tail(rows))

\* def load_summer_list(csv_path): rows is what csv.reader yields for the file
load_summer_list(rows) ==
    IF rows = <<>> THEN <<>>
    ELSE LET first == Head(rows)
             titles == IF first # <<>> /\ strip(first[1]) # <<>>
                       THEN LET clean == clean_title(strip(lstrip_bom(first[1])))
                            IN  IF str_lower(clean) \notin {sMovie, sTitle}
                                THEN <<clean>> ELSE <<>>
                       ELSE <<>>
         IN  titles \o LaterRows(Tail(rows))

-----------------------------------------------------------------------------
(* The text functions called on their own *)

sLiloStitch == <<"L","i","l","o"," ","&"," ","S","t","i","t","c","h">>
sLiloDashed == <<"l","i","l","o","-","s","t","i","t","c","h","!","!">>
sLiloUc == <<"L","I","L","O","S","T","I","T","C","H">>
sLiloKey == <<"l","i","l","o","s","t","i","t","c","h">>
sThunderbolts == <<"T","h","u","n","d","e","r","b","o","l","t","s","*">>
sWide == <<"W","i","d","e">>

\* a title followed by a parenthetical note
Annotated(t, a) == t \o <<" ", "(">> \o a \o <<")">>

AnnotTitles == {sSuperman, sThunderbolts}

Annotations == {sWide, sQuestion, sEmpty}

NormAlphabet == {"L", "l", "9", " ", "&", cEAcute, cKelvin, cIDotted}

NormArgPool ==
    SeqsUpTo(NormAlphabet, MaxStr)
        \cup {sLiloStitch, sLiloDashed, sLiloUc}
        \cup {Annotated(t, a) : t \in AnnotTitles, a \in Annotations}

sA == <<"A">>
sB == <<"B">>
sC == <<"C">>
sAandBC == <<"A"," ","a","n","d"," ","B",","," ","C">>
sAandBUc == <<"A"," ","A","N","D"," ","B">>
sAtabAndB == <<"A","\t","a","n","d","\t","B">>

SplitTokens == {sA, sB, <<" ">>, <<",">>, <<"/">>, <<"a","n","d">>}

RECURSIVE Flatten(_)
Flatten(ts) == IF ts = <<>> THEN <<>> ELSE Head(ts) \o Flatten(Tail(ts))

SplitArgPool ==
    {Flatten(ts) : ts \in SeqsUpTo(SplitTokens, MaxTokens)}
        \cup {sWarnerLegendary, sAandBC, sAandBUc, sAtabAndB}

sWaltDisneyPictures == <<"W","a","l","t"," ","D","i","s","n","e","y"," ","P","i","c","t","u","r","e","s">>
sBuenaVista == <<"B","u","e","n","a"," ","V","i","s","t","a">>
sFooInc == <<"F","o","o",","," ","I","n","c",".">>
sWaltDisneyPicturesLc == <<"w","a","l","t"," ","d","i","s","n","e","y"," ","p","i","c","t","u","r","e","s">>

\* the names of the alias table, its buckets, and names it does not hold
NamePool ==
    {mapping[i].key : i \in DOMAIN mapping}
        \cup {mapping[i].value : i \in DOMAIN mapping}
        \cup {sFooInc, sWaltDisneyPicturesLc, sEmpty}

Pads == SeqsUpTo(Whitespace, MaxPad)

DistributorArgPool == {None} \cup {l \o n \o r : l \in Pads, n \in NamePool, r \in Pads}

sTitleUc == <<"T","I","T","L","E">>
sSupermanWide == <<"S","u","p","e","r","m","a","n"," ","(","W","i","d","e",")">>
sNoteOnly == <<"(","W","i","d","e",")">>
sTwoNotes == <<"E","l","i","o"," ","(","x",")"," ","E","l","i","o"," ","(","y",")">>
sOpenNote == <<"E","l","i","o"," ","(","x">>

\* the first fields of the rows of a reference file
FieldPool ==
    {sEmpty, <<" ">>, sTitleUc, <<cBOM>> \o sMovie, <<cBOM>> \o sElio, <<cBOM>>,
     sSupermanWide, <<" ">> \o sElio \o <<" ">>, sNoteOnly, sTwoNotes, sOpenNote}

\* a row is the list of its fields; a blank line is the empty list
FileRowPool == {<<>>} \cup {<<f>> : f \in FieldPool} \cup {<<sWeapons, sQuestion>>}

TextInit ==
    /\ ScoreIdle
    /\ TopIdle
    /\ DistIdle
    /\ BoardIdle
    /\ out = <<>>
    /\ \/ pc = "normalize" /\ arg \in NormArgPool
       \/ pc = "split" /\ arg \in SplitArgPool
       \/ pc = "distributor" /\ arg \in DistributorArgPool
       \/ pc = "load_list" /\ arg \in SeqsUpTo(FileRowPool, MaxFileRows)

\* key = normalize_title(title)
NormalizeTitle ==
    /\ pc = "normalize"
    /\ pc' = "normalize_key"
    /\ out' = <<normalize_title(arg)>>
    /\ UNCHANGED <<scoreVars, topVars, distVars, boardVars, arg>>

\* normalize_title applied to a key it returned
NormalizeKey ==
    /\ pc = "normalize_key"
    /\ pc' = "normalized"
    /\ out' = Append(out, normalize_title(out[1]))
    /\ UNCHANGED <<scoreVars, topVars, distVars, boardVars, arg>>

\* for part in splitter.split(row.get("dist") or ""): the names it reaches
SplitDistributors ==
    /\ pc = "split"
    /\ pc' = "split_done"
    /\ out' = <<DistributorsOf(arg)>>
    /\ UNCHANGED <<scoreVars, topVars, distVars, boardVars, arg>>

\* dist = normalize_distributor(part)
NormalizeDistributor ==
    /\ pc = "distributor"
    /\ pc' = "distributor_done"
    /\ out' = <<normalize_distributor(arg)>>
    /\ UNCHANGED <<scoreVars, topVars, distVars, boardVars, arg>>

\* titles = load_summer_list(csv_path)
LoadSummerList ==
    /\ pc = "load_list"
    /\ pc' = "list_loaded"
    /\ out' = <<load_summer_list(arg)>>
    /\ UNCHANGED <<scoreVars, topVars, distVars, boardVars, arg>>

TextNext ==
    \/ NormalizeTitle
    \/ NormalizeKey
    \/ SplitDistributors
    \/ NormalizeDistributor
    \/ LoadSummerList

SpecText == TextInit /\ [][TextNext]_vars

-----------------------------------------------------------------------------
(* Claims about score_entry, checked under SpecScore *)

\* ranks of the ranked titles whose normalized key equals that of pick p
MatchingRanks(p, titles) ==
    {r \in DOMAIN titles : normalize_title(titles[r]) = normalize_title(p)}

FirstMatchingRank(p, titles) ==
    CHOOSE r \in MatchingRanks(p, titles) : \A q \in MatchingRanks(p, titles) : r <= q

PickContribution(i, p, titles) ==
    IF MatchingRanks(p, titles) = {} THEN 0
    ELSE IF FirstMatchingRank(p, titles) = i THEN 1 + i
    ELSE 1

\* C1: while the picks are scored, total starts at 0 and changes only when a
\* pick is scored; the pick at position i adds exactly 1+i when the first
\* ranked title with the pick's normalized key sits at rank i, exactly 1 when
\* that first match sits at another rank, and 0 when no ranked title matches,
\* so the movie part of the score is the sum of the per-pick contributions.
C1_MoviePickScoring ==
    [][pc = "picks" =>
          /\ idx = 0 => total = 0
          /\ idx' = idx + 1 => total' = total + PickContribution(idx', pick', actual_titles)
          /\ idx' # idx + 1 => total' = total]_vars

\* C1 witness: the second pick has been scored, its first match sits at rank 2
\* and it earned the exact-position bonus on top of an unmatched first pick.
C1_Witness ==
    /\ pc = "picks"
    /\ idx = 2
    /\ MatchingRanks(pick, actual_titles) # {}
    /\ FirstMatchingRank(pick, actual_titles) = 2
    /\ total = 3

\* the distributor guess g at position k names the distributor ranked exactly k
NamesRank(k, g, rankings) ==
    \E j \in DOMAIN rankings :
        rankings[j].rank = k /\ normalize_title(rankings[j].dist) = normalize_title(g)

\* C2 as stated: the guess at position k earns 5, 3, 1 for k = 1, 2, 3 if and
\* only if the distributor ranked exactly k has the guess's normalized key, and
\* nothing otherwise.
C2_AsStated ==
    [][(pc = "dists" /\ wanted_rank' = wanted_rank + 1) =>
          total' = total + (IF wanted_rank' \in 1..3 /\ NamesRank(wanted_rank', guess', dist_rankings)
                            THEN DIST_RANK_POINTS(wanted_rank') ELSE 0)]_vars

\* C2 amended: the guess at position k earns 5, 3, 1 for k = 1, 2, 3 if and
\* only if it is not empty and the distributor ranked exactly k has the guess's
\* normalized key; a guess matching a distributor at another rank, an empty
\* guess and a guess at a position beyond 3 earn nothing.
C2_DistributorRankScoring ==
    [][(pc = "dists" /\ wanted_rank' = wanted_rank + 1) =>
          /\ (wanted_rank' = 1 /\ guess' # sEmpty /\ NamesRank(1, guess', dist_rankings))
                => total' = total + 5
          /\ (wanted_rank' = 2 /\ guess' # sEmpty /\ NamesRank(2, guess', dist_rankings))
                => total' = total + 3
          /\ (wanted_rank' = 3 /\ guess' # sEmpty /\ NamesRank(3, guess', dist_rankings))
                => total' = total + 1
          /\ (wanted_rank' > 3 \/ guess' = sEmpty
                 \/ ~NamesRank(wanted_rank', guess', dist_rankings))
                => total' = total]_vars

\* C2 witness: the second guess names, in another case, the distributor ranked
\* second and has earned 3 after a first guess that earned nothing.
C2_Witness ==
    /\ pc = "dists"
    /\ wanted_rank = 2
    /\ guess = sUniversalLc
    /\ Len(dist_rankings) >= 2
    /\ dist_rankings[2].dist = sUniversal
    /\ Len(actual_titles) = 0
    /\ Len(MONTHLY_WINNERS) = 0
    /\ total = 3

\* C3: a configured month awards 3 if and only if its winner is not empty and
\* the guess for it has the winner's normalized key; a month whose winner is
\* empty or missing awards nothing whatever the guess is.
C3_MonthlyWinnerScoring ==
    [][(pc = "monthly" /\ month_i' = month_i + 1) =>
          LET winner == MONTHLY_WINNERS[month_i'].winner
          IN  /\ total' - total \in {0, 3}
              /\ total' - total = 3 <=>
                    /\ winner \notin {None, sEmpty}
                    /\ normalize_title(guess') = normalize_title(winner)]_vars

\* C3 witness: after a month without a winner, the guess "superman" has earned
\* 3 for the winner "Superman".
C3_Witness ==
    /\ pc = "monthly"
    /\ month_i = 2
    /\ MONTHLY_WINNERS[1].winner = None
    /\ MONTHLY_WINNERS[2].winner = sSuperman
    /\ guess = sSupermanLc
    /\ Len(actual_titles) = 0
    /\ total = 3

\* C10: an empty or missing pick, monthly guess or distributor guess adds
\* nothing to total, whatever the ranked titles, the monthly winners and the
\* distributor ranking are.
C10_EmptyInputsScoreNothing ==
    [][/\ (pc = "picks" /\ idx' = idx + 1 /\ pick' = sEmpty) => total' = total
       /\ (pc = "monthly" /\ month_i' = month_i + 1 /\ guess' = sEmpty) => total' = total
       /\ (pc = "dists" /\ wanted_rank' = wanted_rank + 1 /\ guess' = sEmpty) => total' = total]_vars

-----------------------------------------------------------------------------
(* Claims about get_top_10_summer_movies, checked under SpecTop *)

\* the normalized titles of the source rows
DataKeys == [k \in DOMAIN data |-> normalize_title(data[k].title)]

\* the source rows whose normalized title is that of some reference title
Eligible ==
    LET refKeys == {normalize_title(t) : t \in Range(raw_titles)}
    IN  {k \in DOMAIN data : DataKeys[k] \in refKeys}

\* where row k of the rows el belongs: behind the rows of greater gross and the
\* earlier rows of equal gross
Place(k, el) ==
    1 + Cardinality({m \in el : data[m].gross > data[k].gross})
      + Cardinality({m \in el : m < k /\ data[m].gross = data[k].gross})

\* C4: the list returned is in non-increasing order of gross, rows of equal
\* gross keep the order of the source rows, and it is the first 10 records of
\* that ordering of all the matched rows (empty when no row matches).
C4_TopListOrdered ==
    pc = "top_returned" =>
        LET el == Eligible
            keys == DataKeys
        IN  /\ Len(top10) = (IF Cardinality(el) < 10 THEN Cardinality(el) ELSE 10)
            /\ \A i, j \in DOMAIN top10 : i < j => top10[i].gross >= top10[j].gross
            /\ \A k \in el :
                  LET at == Place(k, el)
                  IN  at <= 10 =>
                         /\ top10[at].gross = data[k].gross
                         /\ normalize_title(top10[at].title) = keys[k]

\* C4 witness: more than 10 rows matched, and two different movies of equal
\* gross that stand in the list in their source order.
C4_Witness ==
    /\ pc = "top_returned"
    /\ Len(matched) > 10
    /\ Len(top10) = 10
    /\ \E i \in 1..9 :
          /\ top10[i].gross = top10[i + 1].gross
          /\ top10[i].title = sSuperman
          /\ top10[i + 1].title = sWeapons

\* the casing the reference list gives a key: that of its last title with it
LastCasing(key) ==
    raw_titles[CHOOSE i \in DOMAIN raw_titles :
                  /\ normalize_title(raw_titles[i]) = key
                  /\ \A j \in DOMAIN raw_titles :
                        normalize_title(raw_titles[j]) = key => j <= i]

\* C5: no record of the ranked output has the normalized title of a source row
\* that matches no reference title; every record carries a reference title
\* verbatim, in the casing of the last reference entry with its key, and the
\* gross of a source row with that key.
C5_OnlyReferenceTitles ==
    pc = "top_returned" =>
        LET el == Eligible
            keys == DataKeys
            topKeys == [i \in DOMAIN top10 |-> normalize_title(top10[i].title)]
        IN  /\ \A k \in DOMAIN data : k \notin el =>
                  \A i \in DOMAIN top10 : topKeys[i] # keys[k]
            /\ \A i \in DOMAIN top10 :
                  /\ top10[i].title \in Range(raw_titles)
                  /\ top10[i].title = LastCasing(topKeys[i])
                  /\ \E k \in DOMAIN data :
                        keys[k] = topKeys[i] /\ data[k].gross = top10[i].gross

\* C5 witness: the reference list holds "Superman" and then "SUPERMAN", a row
\* "superman" is ranked under the later casing and a row "Elio" was left out.
C5_Witness ==
    /\ pc = "top_returned"
    /\ raw_titles = <<sSuperman, sSupermanUc>>
    /\ \E k \in DOMAIN data : data[k].title = sElio
    /\ \E i \in DOMAIN top10 : top10[i].title = sSupermanUc

-----------------------------------------------------------------------------
(* Claims about get_top_distributors_for_summer, checked under SpecDist *)

\* the row has a release date in [May 1, September 1) of 2025 and a positive gross
Qualifying(row) ==
    /\ row.release # NoDate
    /\ 20250501 <= row.release[1]
    /\ row.release[1] < 20250901
    /\ row.gross > 0

\* the canonical distributors of the row's distributor field, in order
PartsOf(row) ==
    LET parts == SelectSeq(splitter_split(row.dist), LAMBDA q : strip(q) # <<>>)
    IN  [i \in DOMAIN parts |-> normalize_distributor(parts[i])]

TotalOf(tot, d) == IF DictHas(tot, d) THEN DictGet(tot, d) ELSE 0

\* C6: a qualifying record adds its entire gross, never a fraction of it, to
\* the total of every canonical distributor its distributor field lists; the
\* single row "Warner Bros. / Legendary" with gross 10 yields the totals
\* Warner Bros. = 10 and Legendary = 10.
C6_FullGrossToEveryDistributor ==
    [][Len(ALL') = Len(ALL) + 1 =>
          LET row == ALL'[Len(ALL')]
          IN  /\ Qualifying(row) =>
                    \A d \in Range(PartsOf(row)) :
                       /\ TotalOf(totals', d) >= TotalOf(totals, d) + row.gross
                       /\ (TotalOf(totals', d) - TotalOf(totals, d)) % row.gross = 0
              /\ (ALL = <<>> /\ row = [release |-> SummerDay, dist |-> sWarnerLegendary,
                                        gross |-> 10]) =>
                    totals' = <<[key |-> sWarnerBros, value |-> 10],
                                [key |-> sLegendary, value |-> 10]>>]_vars

\* C6 witness: after "Universal" with gross 5, the row "Warner Bros. /
\* Legendary" with gross 10 has been aggregated and both have 10.
C6_Witness ==
    /\ pc = "aggregate"
    /\ Len(ALL) = 2
    /\ ALL[2] = [release |-> SummerDay, dist |-> sWarnerLegendary, gross |-> 10]
    /\ totals = <<[key |-> sUniversal, value |-> 5],
                  [key |-> sWarnerBros, value |-> 10],
                  [key |-> sLegendary, value |-> 10]>>

\* C7: a record without a release date, with a release date before May 1 or on
\* or after September 1, or with a gross of 0 or less changes no total; a
\* record released from May 1 on and before September 1 with a positive gross
\* and a distributor changes one.
C7_WindowFilter ==
    [][Len(ALL') = Len(ALL) + 1 =>
          LET row == ALL'[Len(ALL')]
          IN  /\ ~Qualifying(row) => totals' = totals
              /\ (Qualifying(row) /\ PartsOf(row) # <<>>) => totals' # totals]_vars

\* C7 witness: a row released on May 1 was counted and a row released on
\* September 1 after it was not.
C7_Witness ==
    /\ pc = "aggregate"
    /\ Len(ALL) = 2
    /\ ALL[1].release = <<20250501>>
    /\ ALL[2].release = <<20250901>>
    /\ totals = <<[key |-> sUniversal, value |-> 5]>>

\* the canonical distributors of the qualifying rows, in the order met
RECURSIVE Mentions(_)
Mentions(rows) ==
    IF rows = <<>> THEN <<>>
    ELSE Mentions(SubSeq(rows, 1, Len(rows) - 1))
            \o (IF Qualifying(rows[Len(rows)]) THEN PartsOf(rows[Len(rows)]) ELSE <<>>)

FirstAt(d, ms) == CHOOSE i \in DOMAIN ms : ms[i] = d /\ \A j \in 1..(i - 1) : ms[j] # d

\* C8: the ranking lists each canonical distributor at most once with its
\* total, in non-increasing order of total, distributors of equal total in the
\* order in which the aggregation first met them; it is the first `limit`
\* entries of that ordering, and an entry's 1-based position is its rank in
\* main's dist_rankings.
C8_DistributorRanking ==
    pc = "dist_returned" =>
        LET ms == Mentions(ALL)
            names == Range(ms)
            first == [d \in names |-> FirstAt(d, ms)]
            sum == [d \in names |-> TotalOf(totals, d)]
            at == [d \in names |->
                     1 + Cardinality({e \in names : sum[e] > sum[d]})
                       + Cardinality({e \in names : sum[e] = sum[d] /\ first[e] < first[d]})]
            rankings == RankingsOf([i \in DOMAIN ranked |-> ranked[i].key])
        IN  /\ Len(ranked) = (IF Cardinality(names) < limit THEN Cardinality(names) ELSE limit)
            /\ \A i, j \in DOMAIN ranked :
                  i < j => ranked[i].value >= ranked[j].value /\ ranked[i].key # ranked[j].key
            /\ \A d \in names :
                  at[d] <= limit =>
                     /\ ranked[at[d]] = [key |-> d, value |-> sum[d]]
                     /\ rankings[at[d]] = [dist |-> d, rank |-> at[d]]

\* C8 witness: three distributors, a limit of 2, and the two returned have
\* equal totals, the second of them met first but topped up later.
C8_Witness ==
    /\ pc = "dist_returned"
    /\ limit = 2
    /\ Len(totals) = 3
    /\ Len(ranked) = 2
    /\ ranked[1].value = ranked[2].value
    /\ Len(ALL) = 3
    /\ ALL[1].dist = sUniversal
    /\ ALL[3].dist = sUniversal
    /\ ranked[1].key = sUniversal

-----------------------------------------------------------------------------
(* Claims about the leaderboard, checked under SpecBoard *)

\* a <= b in the lexicographic order of the code points
LexLeq(a, b) ==
    \/ /\ Len(a) <= Len(b)
       /\ \A i \in DOMAIN a : a[i] = b[i]
    \/ \E i \in DOMAIN a :
          /\ i <= Len(b)
          /\ \A j \in 1..(i - 1) : a[j] = b[j]
          /\ Ord(a[i]) < Ord(b[i])

\* how often the result r stands in the list s
Count(r, s) == Cardinality({i \in DOMAIN s : s[i] = r})

\* the points of entry e, rule by rule
PointsOf(e) ==
    SumTo([i \in DOMAIN e.picks |-> PickContribution(i, e.picks[i], BoardTitles)], Len(e.picks))
    + (IF normalize_title(e.monthly[1]) = normalize_title(sSuperman) THEN 3 ELSE 0)
    + (IF e.dists[1] # sEmpty /\ NamesRank(1, e.dists[1], BoardRankings) THEN 5 ELSE 0)
    + (IF e.dists[2] # sEmpty /\ NamesRank(2, e.dists[2], BoardRankings) THEN 3 ELSE 0)
    + (IF e.dists[3] # sEmpty /\ NamesRank(3, e.dists[3], BoardRankings) THEN 1 ELSE 0)

\* C9: once sorted, the leaderboard is in descending order of points, entries
\* of equal points are in ascending lexicographic order of the name, and it
\* holds one result per entry scored: the results are a permutation of the
\* entries' names with their points.
C9_LeaderboardOrdering ==
    pc = "board_sorted" =>
        LET results == [i \in DOMAIN entries |->
                           [name |-> entries[i].name, score |-> PointsOf(entries[i])]]
        IN  /\ Len(scored) = Len(entries)
            /\ \A r \in Range(results) \cup Range(scored) : Count(r, scored) = Count(r, results)
            /\ \A i, j \in DOMAIN scored :
                  i < j =>
                     \/ scored[i].score > scored[j].score
                     \/ /\ scored[i].score = scored[j].score
                        /\ LexLeq(scored[i].name, scored[j].name)

\* C9 witness: "Bo" entered before "Al" with equal points and stands behind
\* "Al", both behind an entry with more points that entered last.
C9_Witness ==
    /\ pc = "board_sorted"
    /\ Len(entries) = 3
    /\ entries[1].name = sBo
    /\ entries[2].name = sAl
    /\ scored[2].name = sAl
    /\ scored[3].name = sBo
    /\ scored[2].score = scored[3].score
    /\ scored[1].score > scored[2].score

-----------------------------------------------------------------------------
(* Claims about the text functions, checked under SpecText *)

IsAsciiAlnum(c) == c \in AZ09 \cup UpperSet

ToUpper == [c \in Range(LOWER) |-> UPPER[CHOOSE i \in DOMAIN LOWER : LOWER[i] = c]]

\* the ASCII letters of s in upper case, every other character as it is
AsciiUpper(s) == [i \in DOMAIN s |-> IF s[i] \in Range(LOWER) THEN ToUpper[s[i]] ELSE s[i]]

\* the two characters outside ASCII whose lower case holds an ASCII letter
LowersIntoAscii == {cIDotted, cKelvin}

\* C11 as stated: normalize_title returns a string over [a-z0-9], applied to
\* its own result it returns that result, the empty string gives the empty
\* key, and a title has the key of every string that differs from it only in
\* case or in characters outside the ASCII letters and digits: here the title
\* in upper case and the title with every such character taken out.
C11_AsStated ==
    pc = "normalized" =>
        /\ \A i \in DOMAIN out[1] : out[1][i] \in AZ09
        /\ out[2] = out[1]
        /\ (arg = sEmpty => out[1] = sEmpty)
        /\ out[1] = normalize_title(AsciiUpper(arg))
        /\ out[1] = normalize_title(SelectSeq(arg, IsAsciiAlnum))

\* C11: normalize_title returns a string over [a-z0-9], applied to its own
\* result it returns that result, the empty string gives the empty key, the
\* three spellings of Lilo & Stitch share one key, and a title has the key of
\* every string that differs from it only in ASCII case or in characters
\* other than the ASCII letters and digits, U+0130 and U+212A.
C11_NormalizeTotalIdempotent ==
    pc = "normalized" =>
        /\ \A i \in DOMAIN out[1] : out[1][i] \in AZ09
        /\ out[2] = out[1]
        /\ (arg = sEmpty => out[1] = sEmpty)
        /\ (arg \in {sLiloStitch, sLiloDashed, sLiloUc} => out[1] = sLiloKey)
        /\ out[1] = normalize_title(AsciiUpper(arg))
        /\ out[1] = normalize_title(
                        SelectSeq(arg, LAMBDA c : IsAsciiAlnum(c) \/ c \in LowersIntoAscii))

C11_Witness ==
    /\ pc = "normalized"
    /\ arg = sLiloStitch
    /\ out = <<sLiloKey, sLiloKey>>

\* C12: the key of a title followed by a parenthetical note, " (a)", is the
\* key of the title alone.
C12_AnnotationStripped ==
    pc = "normalized" =>
        \A t \in AnnotTitles, a \in Annotations :
            arg = Annotated(t, a) => out[1] = normalize_title(t)

\* the part holds the word "and", in any case, between blanks or the part's ends
HasWordAnd(p) ==
    \E i \in 1..(Len(p) - 2) :
        /\ str_lower(SubSeq(p, i, i + 2)) = <<"a", "n", "d">>
        /\ (i = 1 \/ p[i - 1] \in Whitespace)
        /\ (i + 2 = Len(p) \/ p[i + 3] \in Whitespace)

\* C13: the parts a distributor field is split into are not empty, are
\* trimmed, hold none of "/", "&", "," and not the word "and", which are all
\* separators; "Warner Bros. / Legendary" gives "Warner Bros." and
\* "Legendary", and "A and B, C" gives "A", "B", "C".
C13_DistributorSplitting ==
    pc = "split_done" =>
        /\ \A i \in DOMAIN out[1] :
              LET p == out[1][i]
              IN  /\ p # <<>>
                  /\ strip(p) = p
                  /\ \A j \in DOMAIN p : p[j] \notin {"/", "&", ","}
                  /\ ~HasWordAnd(p)
        /\ (arg = sWarnerLegendary => out[1] = <<sWarnerBros, sLegendary>>)
        /\ (arg = sAandBC => out[1] = <<sA, sB, sC>>)

\* s without the whitespace before its first and after its last other character
Trimmed(s) ==
    LET I == {i \in DOMAIN s : s[i] \notin Whitespace}
    IN  IF I = {} THEN <<>>
        ELSE SubSeq(s, CHOOSE i \in I : \A j \in I : i <= j,
                       CHOOSE i \in I : \A j \in I : j <= i)

\* the alias table as a set of (name, bucket) pairs
Aliases == {<<mapping[i].key, mapping[i].value>> : i \in DOMAIN mapping}

\* C14: normalize_distributor returns "Unknown" when its input is missing or
\* the empty string; otherwise, with the input trimmed of surrounding
\* whitespace, it returns the bucket of a name of the alias table ("Walt
\* Disney" for "Walt Disney Pictures" and for "Buena Vista") and the trimmed
\* name itself for any other name, which is the empty string when the input
\* holds whitespace only.
C14_NormalizeDistributor ==
    pc = "distributor_done" =>
        LET n == Trimmed(arg)
        IN  /\ (arg \in {None, sEmpty} => out[1] = sUnknown)
            /\ (arg \notin {None, sEmpty} =>
                   /\ \A a \in Aliases : n = a[1] => out[1] = a[2]
                   /\ ((\A a \in Aliases : n # a[1]) => out[1] = n)
                   /\ (n \in {sWaltDisneyPictures, sBuenaVista} => out[1] = sWaltDisney))

C14_Witness ==
    /\ pc = "distributor_done"
    /\ arg = <<" ">> \o sBuenaVista \o <<"\t">>
    /\ out = <<sWaltDisney>>

\* the string ends with a parenthetical note, "(...)"
EndsWithNote(t) ==
    /\ t # <<>>
    /\ t[Len(t)] = ")"
    /\ \E k \in 1..(Len(t) - 1) : t[k] = "("

\* the first row of the file is a header: its cleaned value is "movie" or "title"
FirstRowIsHeader(rows) ==
    /\ rows # <<>>
    /\ rows[1] # <<>>
    /\ str_lower(clean_title(strip(lstrip_bom(rows[1][1])))) \in {sMovie, sTitle}

\* C15: every string load_summer_list returns is not empty, has no whitespace
\* around it and no trailing "(...)" note, and a first row that is a header
\* gives no string, so fewer strings are returned than the file has rows.
C15_ReferenceListLoading ==
    pc = "list_loaded" =>
        /\ \A i \in DOMAIN out[1] :
              /\ out[1][i] # sEmpty
              /\ strip(out[1][i]) = out[1][i]
              /\ ~EndsWithNote(out[1][i])
        /\ (FirstRowIsHeader(arg) => Len(out[1]) < Len(arg))

-----------------------------------------------------------------------------
(* A further claim about get_top_distributors_for_summer, checked under SpecDist *)

\* the sum of the grosses of the qualifying records of rows that list d
RECURSIVE GrossListing(_, _)
GrossListing(rows, d) ==
    IF rows = <<>> THEN 0
    ELSE (IF Qualifying(Head(rows)) /\ d \in Range(PartsOf(Head(rows)))
          THEN Head(rows).gross ELSE 0) + GrossListing(Tail(rows), d)

\* the sum of the grosses of the qualifying records of rows
RECURSIVE GrossOfAll(_)
GrossOfAll(rows) ==
    IF rows = <<>> THEN 0
    ELSE (IF Qualifying(Head(rows)) THEN Head(rows).gross ELSE 0) + GrossOfAll(Tail(rows))

\* C16: a record adds its gross once to a canonical distributor however many
\* parts of its field name that distributor, so every total is the sum of the
\* grosses of the qualifying records that list the distributor and none is
\* more than the sum of the grosses of all qualifying records.
C16_GrossAtMostOncePerDistributor ==
    \A i \in DOMAIN totals :
        /\ totals[i].value = GrossListing(ALL, totals[i].key)
        /\ totals[i].value <= GrossOfAll(ALL)

====
